---- MODULE Spec2Model ----
(***************************************************************************)
(* Model of the retrieval core of NL2SQL_system: the diversified selector  *)
(* mmr_select of rag_ingest/rag_query.py (the copy in                      *)
(* services/python-llm/main.py is line for line the same).                 *)
(*                                                                         *)
(* Numbers.  Python floats are modelled by exact scaled integers:          *)
(*   sim  is held in units of 1/SimOne  (SimOne = 20: 18 is 0.90),         *)
(*   lam  is held in units of 1/LamDen  (LamDen = 20: 10 is 0.5),          *)
(*   a score is held in units of 1/(SimOne*LamDen).                        *)
(* On the input sets used here two float scores are equal exactly when the *)
(* scaled integers are equal, and one is greater exactly when the scaled   *)
(* integer is greater (lam is 0, 0.5, 0.95 or 1; sim is 0.80, 0.85, 0.90). *)
(* This was compared with the Python function on every input of the model.*)
(* Positions of the candidate list are 1-based (Python index + 1).         *)
(***************************************************************************)
EXTENDS Integers, Sequences, FiniteSets, TLC

\* ---- bounds of the model ----
MaxCands == 3
MaxChunks == 2
MaxRows == 2
MaxRequests == 3
MaxDepth == 2
MaxCsvRows == 2
MaxRuns == 2
MaxNorads == 4
MaxBatch == 3
NumGroups == 2
MaxK == 3
MaxCap == 2

\* ---- scales ----
SimOne == 20
LamDen == 20

Sims == {16, 18}
Lams == {0, 10, 19, 20}
Items == 1..NumGroups
Ks == -1..MaxK
Caps == 0..MaxCap

Cand == [item_id : Items, sim : Sims]
CandLists == UNION {[1..n -> Cand] : n \in 0..MaxCands}

\* the candidate list [(1,A,0.9),(2,A,0.85),(3,B,0.8)] of the documented example
ScenarioA ==
  <<[item_id |-> 1, sim |-> 18], [item_id |-> 1, sim |-> 17], [item_id |-> 2, sim |-> 16]>>

InputLists == CandLists \cup {ScenarioA}

\* best_i = None
None == 0
\* per_item_cap=None: the default of the parameter, held as an integer that is no cap
NoneCap == -1000
\* best_score = -1e9, below every score a candidate can have
BestScoreInit == -1000000000

\* min_sim = None (--min-sim not given)
NoneSim == -1000

\* the state of a call of mmr_select and of its caller
VARIABLES cands, k, lam, per_item_cap, selected, used_per_item, pc, result,
          has_prev, prev_k, prev_result

\* rag_query.main: the fetched rows and args.min_sim
VARIABLES rows, min_sim

mmrVars == <<cands, k, lam, per_item_cap, selected, used_per_item, pc, result,
             has_prev, prev_k, prev_result>>

\* a call of build_prompt: its arguments, which copy of the function (variant),
\* the returned string (doc) and whether it has returned (asm_pc)
VARIABLES chunks, header, footer, cite, variant, doc, asm_pc

\* the service (services/python-llm/main.py): the vector store, the module globals
\* current_prompt, current_rag_context, intuition_rags, and of the latest request its
\* question, the branch it took (req_kind), the rows it fetched, the list it passed to
\* mmr_select (mmr_arg) and its local rag_context; n_requests counts the requests
VARIABLES store, current_prompt, current_rag_context, intuition_rags,
          req_question, req_kind, fetched, mmr_arg, rag_context, n_requests

\* of the latest request: the number of embedding requests it sent, what
\* search_rag_context returned, the exception that ended it and the status of its
\* response; and the history of the cache slot: the question of the request whose
\* retrieval step completed last, and the question and context of the request that
\* wrote current_rag_context last
VARIABLES embed_requests, search_ret, raised, http_status,
          last_done_question, writer_question, writer_context

\* the end of generate_sql (main.py:314-328): the classes sqlglot.exp defines, what
\* parse_one makes of the text the backend answers, the position of the handler, the
\* exception that ended it, the status and the warnings of its response
VARIABLES exp_classes, llm_sql, sql_pc, sql_raised, sql_status, warnings

sqlVars == <<exp_classes, llm_sql, sql_pc, sql_raised, sql_status, warnings>>

\* sync_info_csv.py, main: the arguments --dataset, --has-header, --dedupe, --apply, the
\* cells of the first column of ./<kind>_items.csv, the store (items with their
\* chunks), the position of the run, the index of the kind the loop is at, the maps
\* desired_maps and current_maps, the plan of the kind processed last, ops["counts"],
\* ops["actions"], the number of the run and whether the run before it applied all
\* its operations
VARIABLES dataset, has_header, dedupe, apply, csv, db, sync_pc, kind_i,
          desired_maps, current_maps, creates, updates, deletes, counts, actions,
          run_no, prev_applied

syncVars == <<dataset, has_header, dedupe, apply, csv, db, sync_pc, kind_i,
              desired_maps, current_maps, creates, updates, deletes, counts, actions,
              run_no, prev_applied>>

\* sync_info_csv.py, upsert_item_and_chunks: the arguments row_ix and body, the
\* position in the function, what its transaction sees (tx) next to the committed
\* store (committed), and what it returned
VARIABLES up_ix, up_body, up_pc, tx, committed, up_ret

upVars == <<up_ix, up_body, up_pc, tx, committed, up_ret>>

\* tle_ingest.py, run_once: the ids fetch_norads returned, BATCH_SIZE, the batches chunk
\* yielded, the ids history was requested for, the position of the run
VARIABLES norads, batch_size, batches, requested, tle_pc

tleVars == <<norads, batch_size, batches, requested, tle_pc>>

\* tle_ingest.py, fetch_gp_for_ids: the ids of the outermost call, the stack of active
\* calls, the value a call just returned, how the outermost call ended and with what,
\* the error it raised, and the number of requests sent
VARIABLES fetch_ids, fetch_stack, fetch_ret, fetch_outcome, fetch_result, fetch_error,
          n_gets

fetchVars == <<fetch_ids, fetch_stack, fetch_ret, fetch_outcome, fetch_result,
               fetch_error, n_gets>>

ingestVars == <<syncVars, upVars, tleVars, fetchVars>>

cliVars == <<rows, min_sim>>

svcVars == <<store, current_prompt, current_rag_context, intuition_rags,
             req_question, req_kind, fetched, mmr_arg, rag_context, n_requests,
             embed_requests, search_ret, raised, http_status,
             last_done_question, writer_question, writer_context>>

asmVars == <<chunks, header, footer, cite, variant, doc, asm_pc>>

\* what a call of mmr_select leaves alone
outerVars == <<cliVars, asmVars, svcVars, sqlVars, ingestVars>>

vars == <<mmrVars, outerVars>>

CliIdle ==
  /\ rows = <<>>
  /\ min_sim = NoneSim

AsmIdle ==
  /\ chunks = <<>>
  /\ header = <<>>
  /\ footer = <<>>
  /\ cite = FALSE
  /\ variant = "cli"
  /\ doc = <<>>
  /\ asm_pc = "idle"

\* a string variable that holds None
NoneStr == <<>>

SvcIdle ==
  /\ store = <<>>
  /\ current_prompt = NoneStr
  /\ current_rag_context = NoneStr
  /\ intuition_rags = <<>>
  /\ req_question = NoneStr
  /\ req_kind = "none"
  /\ fetched = <<>>
  /\ mmr_arg = <<>>
  /\ rag_context = NoneStr
  /\ n_requests = 0
  /\ embed_requests = 0
  /\ search_ret = NoneStr
  /\ raised = "none"
  /\ http_status = 0
  /\ last_done_question = NoneStr
  /\ writer_question = NoneStr
  /\ writer_context = NoneStr

SqlIdle ==
  /\ exp_classes = {}
  /\ llm_sql = <<>>
  /\ sql_pc = "idle"
  /\ sql_raised = "none"
  /\ sql_status = 0
  /\ warnings = {}

SyncIdle ==
  /\ dataset = <<>>
  /\ has_header = FALSE
  /\ dedupe = FALSE
  /\ apply = FALSE
  /\ csv = <<>>
  /\ db = {}
  /\ sync_pc = "idle"
  /\ kind_i = 0
  /\ desired_maps = <<>>
  /\ current_maps = <<>>
  /\ creates = <<>>
  /\ updates = <<>>
  /\ deletes = <<>>
  /\ counts = <<>>
  /\ actions = <<>>
  /\ run_no = 0
  /\ prev_applied = FALSE

UpIdle ==
  /\ up_ix = 0
  /\ up_body = <<>>
  /\ up_pc = "idle"
  /\ tx = {}
  /\ committed = {}
  /\ up_ret = "none"

TleIdle ==
  /\ norads = <<>>
  /\ batch_size = 0
  /\ batches = <<>>
  /\ requested = <<>>
  /\ tle_pc = "idle"

FetchIdle ==
  /\ fetch_ids = <<>>
  /\ fetch_stack = <<>>
  /\ fetch_ret = <<>>
  /\ fetch_outcome = "idle"
  /\ fetch_result = <<>>
  /\ fetch_error = <<>>
  /\ n_gets = 0

IngestIdle == SyncIdle /\ UpIdle /\ TleIdle /\ FetchIdle

\* nothing outside mmr_select is in use
OuterIdle == CliIdle /\ AsmIdle /\ SvcIdle /\ SqlIdle /\ IngestIdle

\* ---- helpers of mmr_select ----

\* used_per_item.get(g, 0)
Get(d, g) == IF g \in DOMAIN d THEN d[g] ELSE 0

\* d[g] = v on a dict
Put(d, g, v) == [x \in (DOMAIN d) \cup {g} |-> IF x = g THEN v ELSE d[x]]

EmptyDict == [x \in {} |-> 0]

\* max(range(len(cands)), key=lambda i: cands[i]["sim"]): the first maximum
RECURSIVE MaxScan(_, _, _)
MaxScan(cs, i, b) ==
  IF i > Len(cs) THEN b
  ELSE IF cs[i].sim > cs[b].sim THEN MaxScan(cs, i + 1, i)
  ELSE MaxScan(cs, i + 1, b)

best_idx_first(cs) == 1

best_idx(cs) == MaxScan(cs, 2, 1)

\* i in selected
InSelectedNever(i, sel) == FALSE

InSelected(i, sel) == \E n \in 1..Len(sel) : sel[n] = i

\* if per_item_cap: (None and 0 are falsy)
Truthy(cap) == cap # NoneCap /\ cap # 0

\* the per-item cap test of the scan: true when candidate i is skipped
CapReachedOffByOne(i, used, cs, cap) ==
  Truthy(cap) /\ Get(used, cs[i].item_id) > cap

CapReachedUnlessNone(i, used, cs, cap) ==
  cap # NoneCap /\ Get(used, cs[i].item_id) >= cap

CapReached(i, used, cs, cap) ==
  Truthy(cap) /\ Get(used, cs[i].item_id) >= cap

\* same_item_penalty: 1.0 when a selected candidate has the same item_id
same_item_penalty_none(i, sel, cs) == 0

same_item_penalty(i, sel, cs) ==
  IF \E n \in 1..Len(sel) : cs[i].item_id = cs[sel[n]].item_id THEN 1 ELSE 0

\* score = lam*sim - (1.0-lam)*penalty, in units of 1/(SimOne*LamDen)
ScoreRelevanceOnly(i, sel, cs, lm) == lm * cs[i].sim

Score(i, sel, cs, lm) ==
  lm * cs[i].sim - (LamDen - lm) * SimOne * same_item_penalty(i, sel, cs)

\* if score > best_score
BetterOrEqual(score, best_score) == score >= best_score

Better(score, best_score) == score > best_score

\* the for loop over range(len(cands)): returns best_i (None when nothing is eligible)
RECURSIVE Scan(_, _, _, _, _, _, _, _)
Scan(i, bi, bs, cs, sel, used, lm, cap) ==
  IF i > Len(cs) THEN bi
  ELSE IF InSelected(i, sel) THEN Scan(i + 1, bi, bs, cs, sel, used, lm, cap)
  ELSE IF CapReached(i, used, cs, cap) THEN Scan(i + 1, bi, bs, cs, sel, used, lm, cap)
  ELSE IF Better(Score(i, sel, cs, lm), bs)
       THEN Scan(i + 1, i, Score(i, sel, cs, lm), cs, sel, used, lm, cap)
       ELSE Scan(i + 1, bi, bs, cs, sel, used, lm, cap)

best_i(cs, sel, used, lm, cap) == Scan(1, None, BestScoreInit, cs, sel, used, lm, cap)

\* while len(selected) < k and len(selected) < len(cands)
WhileCondShort(sel, kk, cs) == Len(sel) + 1 < kk /\ Len(sel) < Len(cs)

WhileCond(sel, kk, cs) == Len(sel) < kk /\ Len(sel) < Len(cs)

\* return selected
RECURSIVE SortedSeq(_)
SortedSeq(S) ==
  IF S = {} THEN <<>>
  ELSE LET m == CHOOSE x \in S : \A y \in S : x <= y
       IN <<m>> \o SortedSeq(S \ {m})

ReturnedSorted(sel) == SortedSeq({sel[n] : n \in 1..Len(sel)})

Returned(sel) == sel

\* mmr_select as a function of its arguments: the seed, then the while loop
RECURSIVE mmr_loop(_, _, _, _, _, _)
mmr_loop(cs, sel, used, kk, lm, cap) ==
  IF ~WhileCond(sel, kk, cs) THEN Returned(sel)
  ELSE LET b == best_i(cs, sel, used, lm, cap)
       IN IF b = None THEN Returned(sel)
          ELSE mmr_loop(cs, Append(sel, b),
                        Put(used, cs[b].item_id, Get(used, cs[b].item_id) + 1),
                        kk, lm, cap)

mmr_select(cs, kk, lm, cap) ==
  IF cs = <<>> THEN Returned(<<>>)
  ELSE mmr_loop(cs, <<best_idx(cs)>>, Put(EmptyDict, cs[best_idx(cs)].item_id, 1),
                kk, lm, cap)

\* used_per_item = {} at entry: a local of the call, whatever an earlier call left
entry_used_kept(left) == left

entry_used(left) == EmptyDict

\* ---- the state machine ----

Init ==
  /\ cands \in InputLists
  /\ k \in Ks
  /\ lam \in Lams
  /\ per_item_cap \in Caps
  /\ selected = <<>>
  /\ used_per_item = EmptyDict
  /\ pc = "entry"
  /\ result = <<>>
  /\ has_prev = FALSE
  /\ prev_k = 0
  /\ prev_result = <<>>
  /\ OuterIdle

\* selected, used_per_item = [], {}; if not cands: return selected
EntryEmpty ==
  /\ pc = "entry"
  /\ cands = <<>>
  /\ pc' = "done"
  /\ result' = Returned(selected)
  /\ UNCHANGED <<cands, k, lam, per_item_cap, selected, used_per_item,
                 has_prev, prev_k, prev_result>>
  /\ UNCHANGED outerVars

\* pick best first
Seed ==
  /\ pc = "entry"
  /\ cands # <<>>
  /\ selected' = Append(selected, best_idx(cands))
  /\ used_per_item' = Put(used_per_item, cands[best_idx(cands)].item_id, 1)
  /\ pc' = "loop"
  /\ UNCHANGED <<cands, k, lam, per_item_cap, result, has_prev, prev_k, prev_result>>
  /\ UNCHANGED outerVars

\* one iteration of the while loop that appends best_i
LoopPick ==
  /\ pc = "loop"
  /\ WhileCond(selected, k, cands)
  /\ LET b == best_i(cands, selected, used_per_item, lam, per_item_cap)
     IN /\ b # None
        /\ selected' = Append(selected, b)
        /\ used_per_item' = Put(used_per_item, cands[b].item_id,
                                Get(used_per_item, cands[b].item_id) + 1)
  /\ UNCHANGED <<cands, k, lam, per_item_cap, pc, result, has_prev, prev_k, prev_result>>
  /\ UNCHANGED outerVars

\* if best_i is None: break; return selected
LoopBreak ==
  /\ pc = "loop"
  /\ WhileCond(selected, k, cands)
  /\ best_i(cands, selected, used_per_item, lam, per_item_cap) = None
  /\ pc' = "done"
  /\ result' = Returned(selected)
  /\ UNCHANGED <<cands, k, lam, per_item_cap, selected, used_per_item,
                 has_prev, prev_k, prev_result>>
  /\ UNCHANGED outerVars

\* the while condition is false; return selected
LoopExit ==
  /\ pc = "loop"
  /\ ~WhileCond(selected, k, cands)
  /\ pc' = "done"
  /\ result' = Returned(selected)
  /\ UNCHANGED <<cands, k, lam, per_item_cap, selected, used_per_item,
                 has_prev, prev_k, prev_result>>
  /\ UNCHANGED outerVars

\* the caller calls mmr_select again on the same candidates with a k that is not smaller
Recall(k2) ==
  /\ pc = "done"
  /\ k2 >= k
  /\ k' = k2
  /\ has_prev' = TRUE
  /\ prev_k' = k
  /\ prev_result' = result
  /\ selected' = <<>>
  /\ used_per_item' = entry_used(used_per_item)
  /\ result' = <<>>
  /\ pc' = "entry"
  /\ UNCHANGED <<cands, lam, per_item_cap>>
  /\ UNCHANGED outerVars

\* the caller calls mmr_select again on the same candidates with any k; the k and the
\* result of its first call are kept in prev_k, prev_result
CallAgain(k2) ==
  /\ pc = "done"
  /\ k' = k2
  /\ has_prev' = TRUE
  /\ prev_k' = (IF has_prev THEN prev_k ELSE k)
  /\ prev_result' = (IF has_prev THEN prev_result ELSE result)
  /\ selected' = <<>>
  /\ used_per_item' = entry_used(used_per_item)
  /\ result' = <<>>
  /\ pc' = "entry"
  /\ UNCHANGED <<cands, lam, per_item_cap>>
  /\ UNCHANGED outerVars

Call == EntryEmpty \/ Seed \/ LoopPick \/ LoopBreak \/ LoopExit

Next == Call \/ \E k2 \in Ks : Recall(k2)

Spec == Init /\ [][Next]_vars

\* one call run to completion: the loop is sequential code, so every enabled step is taken
FairSpec == Init /\ [][Call]_vars /\ WF_vars(Call)

\* repeated calls on one candidate list, in any order of k
RepeatLams == {10}
RepeatCaps == {0, 1}

InitRepeat == Init /\ lam \in RepeatLams /\ per_item_cap \in RepeatCaps

NextRepeat == Call \/ \E k2 \in Ks : CallAgain(k2)

RepeatSpec == InitRepeat /\ [][NextRepeat]_vars

\* calls without a cap: per_item_cap is None or 0
NoCaps == {NoneCap, 0}

\* the calls without a cap, next to the same calls with a cap of 1
UnlimitedCaps == NoCaps \cup {1}

InitUnlimited ==
  /\ cands \in InputLists
  /\ k \in Ks
  /\ lam \in Lams
  /\ per_item_cap \in UnlimitedCaps
  /\ selected = <<>>
  /\ used_per_item = EmptyDict
  /\ pc = "entry"
  /\ result = <<>>
  /\ has_prev = FALSE
  /\ prev_k = 0
  /\ prev_result = <<>>
  /\ OuterIdle

UnlimitedSpec == InitUnlimited /\ [][Call]_vars

\* ---- rag_query.main: score conversion, threshold, rerank ----

\* distances of the fetched rows, in units of 1/SimOne (0.10, 0.40, 0.50)
Dists == {2, 8, 10}

\* --min-sim: not given, or 0.6
MinSims == {NoneSim, 12}

\* --mmr default 0.5 and --per-item-cap default 2
DefaultMmr == 10
DefaultPerItemCap == 2

FetchedRow == [item_id : Items, dist : Dists]

\* ORDER BY distance LIMIT candidates: the rows come in ascending distance
FetchedLists ==
  {r \in UNION {[1..n -> FetchedRow] : n \in 0..MaxCands} :
     \A i \in 1..(Len(r) - 1) : r[i].dist <= r[i + 1].dist}

\* rows of similarity 0.9, 0.5, 0.7 of the documented example
ScenarioC ==
  <<[item_id |-> 1, dist |-> 2], [item_id |-> 2, dist |-> 10], [item_id |-> 1, dist |-> 6]>>

\* if args.min_sim is not None and sim < args.min_sim: continue
KeepRowAbove(sim, ms) == ~(ms # NoneSim /\ sim <= ms)

KeepRow(sim, ms) == ~(ms # NoneSim /\ sim < ms)

\* for r in rows: dist, sim = 1.0 - dist; threshold; cands.append({...})
RECURSIVE ScoreConversion(_, _, _, _)
ScoreConversion(rs, ms, i, acc) ==
  IF i > Len(rs) THEN acc
  ELSE IF KeepRow(SimOne - rs[i].dist, ms)
       THEN ScoreConversion(rs, ms, i + 1,
              Append(acc, [item_id |-> rs[i].item_id, dist |-> rs[i].dist,
                           sim |-> SimOne - rs[i].dist]))
       ELSE ScoreConversion(rs, ms, i + 1, acc)

InitCli ==
  /\ rows \in FetchedLists \cup {ScenarioC}
  /\ min_sim \in MinSims
  /\ cands = <<>>
  /\ k \in Ks
  /\ lam = DefaultMmr
  /\ per_item_cap = DefaultPerItemCap
  /\ selected = <<>>
  /\ used_per_item = EmptyDict
  /\ pc = "fetched"
  /\ result = <<>>
  /\ has_prev = FALSE
  /\ prev_k = 0
  /\ prev_result = <<>>
  /\ AsmIdle
  /\ SvcIdle
  /\ SqlIdle
  /\ IngestIdle

\* the score conversion loop; cands is then passed to mmr_select
CliFilter ==
  /\ pc = "fetched"
  /\ cands' = ScoreConversion(rows, min_sim, 1, <<>>)
  /\ pc' = "entry"
  /\ UNCHANGED <<k, lam, per_item_cap, selected, used_per_item, result,
                 has_prev, prev_k, prev_result, outerVars>>

NextCli == CliFilter \/ Call

CliSpec == InitCli /\ [][NextCli]_vars

\* --mmr is any float (type=float) and --per-item-cap any int (type=int): parse_args
\* converts the text and checks no range; here -0.25, 0, 0.5, 1, 1.5 and -1, 0, 2
ArgMmrs == {-5, 0, 10, 20, 30}
ArgCaps == {-1, 0, 2}

\* the state after parse_args and the fetch, for the values the command line can give
InitArgs ==
  /\ rows \in FetchedLists
  /\ min_sim = NoneSim
  /\ cands = <<>>
  /\ k = MaxK
  /\ lam \in ArgMmrs
  /\ per_item_cap \in ArgCaps
  /\ selected = <<>>
  /\ used_per_item = EmptyDict
  /\ pc = "fetched"
  /\ result = <<>>
  /\ has_prev = FALSE
  /\ prev_k = 0
  /\ prev_result = <<>>
  /\ AsmIdle
  /\ SvcIdle
  /\ SqlIdle
  /\ IngestIdle

ArgsSpec == InitArgs /\ [][NextCli]_vars

\* ---- build_prompt (rag_query.py and services/python-llm/main.py) ----
\* A string is a sequence of tokens; NL is the newline character, SP a space, the other
\* tokens stand for text without white space.  None and "" (both falsy) are <<>>.

NL == "\n"
SP == " "
CR == "\r"
Whitespace == {NL, SP, CR}

\* "--- Retrieved context ---" and "--- Instructions ---"
CTX == "--- Retrieved context ---"
INS == "--- Instructions ---"

\* the literals "\n--- Retrieved context ---" and "\n--- Instructions ---"
ContextMarker == <<NL, CTX>>
InstructionsMarker == <<NL, INS>>

\* the separator of "\n\n".join(lines)
JoinSepSingle == <<NL>>

JoinSep == <<NL, NL>>

\* str.strip()
RECURSIVE LStrip(_)
LStrip(str) ==
  IF str = <<>> THEN str
  ELSE IF Head(str) \in Whitespace THEN LStrip(Tail(str)) ELSE str

RECURSIVE RStrip(_)
RStrip(str) ==
  IF str = <<>> THEN str
  ELSE IF str[Len(str)] \in Whitespace THEN RStrip(SubSeq(str, 1, Len(str) - 1)) ELSE str

Strip(str) == RStrip(LStrip(str))

\* f"[{c['kind']}:{c['name']}#{c['chunk_ix']}]" if cite else ""
Tag(c, ct) == IF ct THEN <<"[", c.kind, ":", c.name, "#", c.chunk_ix, "]">> ELSE <<>>

\* f"{tag}\n{c['chunk_text']}"
Block(c, ct) == Tag(c, ct) \o <<NL, c.chunk_text>>

\* for c in chunks: lines.append(block)
RECURSIVE FragmentPartsDedup(_, _)
FragmentPartsDedup(cs, ct) ==
  IF cs = <<>> THEN <<>>
  ELSE IF \E i \in 2..Len(cs) : cs[i] = cs[1] THEN FragmentPartsDedup(Tail(cs), ct)
  ELSE <<Block(cs[1], ct)>> \o FragmentPartsDedup(Tail(cs), ct)

FragmentParts(cs, ct) == [i \in 1..Len(cs) |-> Block(cs[i], ct)]

\* "\n\n".join(lines)
RECURSIVE JoinLines(_)
JoinLines(lines) ==
  IF lines = <<>> THEN <<>>
  ELSE IF Len(lines) = 1 THEN lines[1]
  ELSE lines[1] \o JoinSep \o JoinLines(Tail(lines))

\* build_prompt of rag_query.py
build_prompt_cli(cs, h, f, ct) ==
  JoinLines((IF h # <<>> THEN <<Strip(h)>> ELSE <<>>)
            \o <<ContextMarker>>
            \o FragmentParts(cs, ct)
            \o (IF f # <<>> THEN <<InstructionsMarker, Strip(f)>> ELSE <<>>))

\* build_prompt of services/python-llm/main.py: the context marker is appended
\* inside "if header:"
build_prompt_svc(cs, h, f, ct) ==
  JoinLines((IF h # <<>> THEN <<Strip(h), ContextMarker>> ELSE <<>>)
            \o FragmentParts(cs, ct)
            \o (IF f # <<>> THEN <<InstructionsMarker, Strip(f)>> ELSE <<>>))

\* the fragment of the documented example and a second one
Fragments ==
  {[kind |-> "g", name |-> "5", chunk_ix |-> "0", chunk_text |-> "hello"],
   [kind |-> "t", name |-> "7", chunk_ix |-> "1", chunk_text |-> "world"]}

Headers == {<<>>, <<"H">>, <<SP, "H", NL>>, <<SP>>}
Footers == {<<>>, <<"F">>, <<NL, "F", SP>>}
Variants == {"cli", "svc"}

InitAsm ==
  /\ chunks \in UNION {[1..n -> Fragments] : n \in 0..MaxChunks}
  /\ header \in Headers
  /\ footer \in Footers
  /\ cite \in BOOLEAN
  /\ variant \in Variants
  /\ doc = <<>>
  /\ asm_pc = "call"
  /\ cands = <<>>
  /\ k = 0
  /\ lam = 0
  /\ per_item_cap = NoneCap
  /\ selected = <<>>
  /\ used_per_item = EmptyDict
  /\ pc = "idle"
  /\ result = <<>>
  /\ has_prev = FALSE
  /\ prev_k = 0
  /\ prev_result = <<>>
  /\ CliIdle
  /\ SvcIdle
  /\ SqlIdle
  /\ IngestIdle

\* the whole call of rag_query.build_prompt
BuildPromptCli ==
  /\ asm_pc = "call"
  /\ variant = "cli"
  /\ doc' = build_prompt_cli(chunks, header, footer, cite)
  /\ asm_pc' = "done"
  /\ UNCHANGED <<chunks, header, footer, cite, variant, mmrVars, cliVars, svcVars, sqlVars, ingestVars>>

\* the whole call of main.build_prompt
BuildPromptSvc ==
  /\ asm_pc = "call"
  /\ variant = "svc"
  /\ doc' = build_prompt_svc(chunks, header, footer, cite)
  /\ asm_pc' = "done"
  /\ UNCHANGED <<chunks, header, footer, cite, variant, mmrVars, cliVars, svcVars, sqlVars, ingestVars>>

NextAsm == BuildPromptCli \/ BuildPromptSvc

AsmSpec == InitAsm /\ [][NextAsm]_vars

\* ---- the service: search_rag_context, generate_sql, generate_intuition ----

\* min_sim = 0.60, topk = 12, per_item_cap = 8, mmr = 0.5 of search_rag_context
SvcMinSim == 12
SvcTopK == 12
SvcPerItemCap == 8
SvcMmr == 10

Questions == {<<"q1">>, <<"q2">>}

\* distances 0.20, 0.40 (similarity exactly 0.60) and 0.50
SvcDists == {4, 8, 10}
SvcItems == {1, 2}
SvcRow == [item_id : SvcItems, dist : SvcDists]

\* ORDER BY distance: the rows of a question come in ascending distance
SvcRowLists ==
  {r \in UNION {[1..n -> SvcRow] : n \in 0..MaxRows} :
     \A i \in 1..(Len(r) - 1) : r[i].dist <= r[i + 1].dist}

\* what the store returns for the second question
OtherRows == <<[item_id |-> 2, dist |-> 4]>>

\* the dict built from a row (kind, name, chunk_ix, chunk_text belong to the item)
RowDict(r) == [item_id |-> r.item_id, dist |-> r.dist, sim |-> SimOne - r.dist]

\* cands.append({...}) for every row
AllRows(rs) == [i \in 1..Len(rs) |-> RowDict(rs[i])]

\* if sim > min_sim: intuition_rags.append({...})
RowAccepted(r) == SimOne - r.dist > SvcMinSim

AcceptedRows(rs) == AllRows(SelectSeq(rs, RowAccepted))

\* the chunk dict handed to build_prompt
ChunkOf(c) ==
  [kind |-> "info", name |-> ToString(c.item_id), chunk_ix |-> "0",
   chunk_text |-> "text" \o ToString(c.item_id)]

\* final = [pool[i] for i in sel_idxs]; prompt = build_prompt(...); return prompt if final else None
ContextOf(pool) ==
  LET sel == mmr_select(pool, SvcTopK, SvcMmr, SvcPerItemCap)
      final == [i \in 1..Len(sel) |-> ChunkOf(pool[sel[i]])]
  IN IF final # <<>> THEN build_prompt_svc(final, <<>>, <<>>, TRUE) ELSE NoneStr

OrNoneKept(x) == x

\* x or "(none)"
OrNone(x) == IF x # <<>> THEN x ELSE <<"(none)">>

InitSvc ==
  /\ \E r \in SvcRowLists : store = (<<"q1">> :> r) @@ (<<"q2">> :> OtherRows)
  /\ current_prompt = NoneStr
  /\ current_rag_context = NoneStr
  /\ intuition_rags = <<>>
  /\ req_question = NoneStr
  /\ req_kind = "none"
  /\ fetched = <<>>
  /\ mmr_arg = <<>>
  /\ rag_context = NoneStr
  /\ n_requests = 0
  /\ embed_requests = 0
  /\ search_ret = NoneStr
  /\ raised = "none"
  /\ http_status = 0
  /\ last_done_question = NoneStr
  /\ writer_question = NoneStr
  /\ writer_context = NoneStr
  /\ cands = <<>>
  /\ k = 0
  /\ lam = 0
  /\ per_item_cap = NoneCap
  /\ selected = <<>>
  /\ used_per_item = EmptyDict
  /\ pc = "idle"
  /\ result = <<>>
  /\ has_prev = FALSE
  /\ prev_k = 0
  /\ prev_result = <<>>
  /\ CliIdle
  /\ AsmIdle
  /\ SqlIdle
  /\ IngestIdle

\* the methods the adapter classes define (MockAdapter, OllamaAdapter,
\* OpenAICompatAdapter): generate, and no sql_generate
AdapterMethods == {"generate"}

\* adapter.sql_generate(...): the attribute lookup raises AttributeError, which no
\* handler catches, so the request ends with status 500 before anything is awaited
AdapterCall ==
  /\ raised' = IF "sql_generate" \in AdapterMethods THEN "none" ELSE "AttributeError"
  /\ http_status' = IF "sql_generate" \in AdapterMethods THEN 0 ELSE 500

GenerateSqlCachedAnyKey(q) ==
  /\ n_requests < MaxRequests
  /\ rag_context' = OrNone(current_rag_context)
  /\ current_prompt' = q
  /\ req_question' = q
  /\ req_kind' = "sql_cached"
  /\ fetched' = <<>>
  /\ mmr_arg' = <<>>
  /\ n_requests' = n_requests + 1
  /\ embed_requests' = 0
  /\ search_ret' = NoneStr
  /\ last_done_question' = q
  /\ AdapterCall
  /\ UNCHANGED <<store, current_rag_context, intuition_rags, writer_question,
                 writer_context, mmrVars, cliVars, asmVars, sqlVars, ingestVars>>

\* generate_sql, req.question == current_prompt: the cached context is used
GenerateSqlCached(q) ==
  /\ n_requests < MaxRequests
  /\ q = current_prompt
  /\ rag_context' = OrNone(current_rag_context)
  /\ current_prompt' = q
  /\ req_question' = q
  /\ req_kind' = "sql_cached"
  /\ fetched' = <<>>
  /\ mmr_arg' = <<>>
  /\ n_requests' = n_requests + 1
  /\ embed_requests' = 0
  /\ search_ret' = NoneStr
  /\ last_done_question' = q
  /\ AdapterCall
  /\ UNCHANGED <<store, current_rag_context, intuition_rags, writer_question,
                 writer_context, mmrVars, cliVars, asmVars, sqlVars, ingestVars>>

\* generate_sql, another question: search_rag_context(req.question)
GenerateSqlSearch(q) ==
  /\ n_requests < MaxRequests
  /\ q # current_prompt
  /\ fetched' = store[q]
  /\ intuition_rags' = intuition_rags \o AcceptedRows(store[q])
  /\ mmr_arg' = AllRows(store[q])
  /\ rag_context' = OrNone(ContextOf(AllRows(store[q])))
  /\ current_rag_context' = OrNone(ContextOf(AllRows(store[q])))
  /\ current_prompt' = q
  /\ req_question' = q
  /\ req_kind' = "sql_search"
  /\ n_requests' = n_requests + 1
  /\ embed_requests' = 1
  /\ search_ret' = ContextOf(AllRows(store[q]))
  /\ last_done_question' = q
  /\ writer_question' = q
  /\ writer_context' = OrNone(ContextOf(AllRows(store[q])))
  /\ AdapterCall
  /\ UNCHANGED <<store, mmrVars, cliVars, asmVars, sqlVars, ingestVars>>

\* generate_intuition, req.question == current_prompt:
\* search_rag_context(q, for_intuition=True, same_query=True), nothing is fetched
GenerateIntuitionSame(q) ==
  /\ n_requests < MaxRequests
  /\ q = current_prompt
  /\ fetched' = <<>>
  /\ mmr_arg' = intuition_rags
  /\ rag_context' = OrNone(ContextOf(intuition_rags))
  /\ current_rag_context' = OrNone(ContextOf(intuition_rags))
  /\ current_prompt' = q
  /\ req_question' = q
  /\ req_kind' = "intuition_same"
  /\ n_requests' = n_requests + 1
  /\ embed_requests' = 0
  /\ search_ret' = ContextOf(intuition_rags)
  /\ last_done_question' = q
  /\ writer_question' = q
  /\ writer_context' = OrNone(ContextOf(intuition_rags))
  /\ AdapterCall
  /\ UNCHANGED <<store, intuition_rags, mmrVars, cliVars, asmVars, sqlVars, ingestVars>>

\* generate_intuition, another question: search_rag_context(q, for_intuition=True)
GenerateIntuitionSearch(q) ==
  /\ n_requests < MaxRequests
  /\ q # current_prompt
  /\ fetched' = store[q]
  /\ intuition_rags' = intuition_rags \o AcceptedRows(store[q])
  /\ mmr_arg' = intuition_rags \o AcceptedRows(store[q])
  /\ rag_context' = OrNone(ContextOf(intuition_rags \o AcceptedRows(store[q])))
  /\ current_rag_context' = OrNone(ContextOf(intuition_rags \o AcceptedRows(store[q])))
  /\ current_prompt' = q
  /\ req_question' = q
  /\ req_kind' = "intuition_search"
  /\ n_requests' = n_requests + 1
  /\ embed_requests' = 1
  /\ search_ret' = ContextOf(intuition_rags \o AcceptedRows(store[q]))
  /\ last_done_question' = q
  /\ writer_question' = q
  /\ writer_context' = OrNone(ContextOf(intuition_rags \o AcceptedRows(store[q])))
  /\ AdapterCall
  /\ UNCHANGED <<store, mmrVars, cliVars, asmVars, sqlVars, ingestVars>>

\* what can go wrong in the retrieval of search_rag_context: embed_query gets a status
\* >= 400, or a payload without a non-empty embedding list, or the candidate query fails
Failures == {"embed_status", "embed_payload", "query"}

\* the exception of a failure: embed_query raises RuntimeError, psycopg2 its own error
ExceptionOf(failure) == IF failure = "query" THEN "psycopg2.Error" ELSE "RuntimeError"

\* the state of the module globals when the retrieval fails: the failure is raised
\* before the first intuition_rags.append and before the handler assigns the cache slot
GlobalsAtFailureAppended(g, rs) == [g EXCEPT !.intuition_rags = @ \o AcceptedRows(rs)]

GlobalsAtFailure(g, rs) == g

\* the embedding requests sent by a retrieval that fails: embed_query posts once and
\* nothing calls it again
EmbedRequestsAtFailure == 1

\* a retrieval that fails: the exception leaves search_rag_context and the handler
RetrievalFails(q, kind, failure) ==
  /\ n_requests < MaxRequests
  /\ q # current_prompt
  /\ LET g == GlobalsAtFailure([current_prompt |-> current_prompt,
                                current_rag_context |-> current_rag_context,
                                intuition_rags |-> intuition_rags], store[q])
     IN /\ current_prompt' = g.current_prompt
        /\ current_rag_context' = g.current_rag_context
        /\ intuition_rags' = g.intuition_rags
  /\ embed_requests' = EmbedRequestsAtFailure
  /\ raised' = ExceptionOf(failure)
  /\ http_status' = 500
  /\ req_question' = q
  /\ req_kind' = kind
  /\ fetched' = <<>>
  /\ mmr_arg' = <<>>
  /\ rag_context' = NoneStr
  /\ search_ret' = NoneStr
  /\ n_requests' = n_requests + 1
  /\ UNCHANGED <<store, last_done_question, writer_question, writer_context,
                 mmrVars, cliVars, asmVars, sqlVars, ingestVars>>

\* generate_sql whose search_rag_context raises
GenerateSqlFails(q, failure) == RetrievalFails(q, "sql_failed", failure)

\* generate_intuition whose search_rag_context raises
GenerateIntuitionFails(q, failure) == RetrievalFails(q, "intuition_failed", failure)

NextSvc ==
  \E q \in Questions :
     \/ GenerateSqlCached(q)
     \/ GenerateSqlSearch(q)
     \/ GenerateIntuitionSame(q)
     \/ GenerateIntuitionSearch(q)
     \/ \E failure \in Failures : GenerateSqlFails(q, failure)
     \/ \E failure \in Failures : GenerateIntuitionFails(q, failure)

SvcSpec == InitSvc /\ [][NextSvc]_vars

\* ---- sync_info_csv.py: the text helpers ----
\* A text is a sequence of one-character tokens.

\* CHUNK_CHARS, 1500 by default, scaled to the texts of the model
ChunkChars == 2

\* .replace("\r\n", "\n").replace("\r", "\n")
RECURSIVE ReplaceNewlines(_)
ReplaceNewlines(str) ==
  IF str = <<>> THEN <<>>
  ELSE IF Len(str) >= 2 /\ str[1] = CR /\ str[2] = NL
       THEN <<NL>> \o ReplaceNewlines(SubSeq(str, 3, Len(str)))
       ELSE IF str[1] = CR THEN <<NL>> \o ReplaceNewlines(Tail(str))
            ELSE <<str[1]>> \o ReplaceNewlines(Tail(str))

\* .split("\n")
RECURSIVE SplitLines(_, _)
SplitLines(str, line) ==
  IF str = <<>> THEN <<line>>
  ELSE IF Head(str) = NL THEN <<line>> \o SplitLines(Tail(str), <<>>)
       ELSE SplitLines(Tail(str), Append(line, Head(str)))

\* "\n".join(line.rstrip() for line in ...)
RECURSIVE JoinRStripped(_)
JoinRStripped(lines) ==
  IF Len(lines) = 1 THEN RStrip(lines[1])
  ELSE RStrip(lines[1]) \o <<NL>> \o JoinRStripped(Tail(lines))

normalize_text(str) == Strip(JoinRStripped(SplitLines(ReplaceNewlines(Strip(str)), <<>>)))

\* [s[i:i+chunk_chars] for i in range(0, len(s), chunk_chars)]
RECURSIVE Slices(_, _)
Slices(str, n) ==
  IF str = <<>> THEN <<>>
  ELSE IF Len(str) <= n THEN <<str>>
       ELSE <<SubSeq(str, 1, n)>> \o Slices(SubSeq(str, n + 1, Len(str)), n)

chunk_text(str) ==
  IF Len(Strip(str)) <= ChunkChars
    THEN (IF Strip(str) # <<>> THEN <<Strip(str)>> ELSE <<>>)
    ELSE Slices(Strip(str), ChunkChars)

\* the rows of rag.rag_chunk of an item: enumerate(chunks)
ChunkRows(chs) == {[chunk_ix |-> i - 1, chunk_text |-> chs[i]] : i \in 1..Len(chs)}

\* ROW_NAME_FMT.format(kind=kind, dataset=dataset, idx=row_ix)
RowName(kind, ds, ix) == <<kind, ":", ":">> \o ds \o <<":", ":", "row", ":", ":", ToString(ix)>>

\* the row indexes that occur in the model, for int(m.group("ix"))
MaxIx == MaxCsvRows + 1
NoneIx == -1

\* [^:]+ : the longest run of tokens other than ':' from position i on
RECURSIVE RunEnd(_, _)
RunEnd(name, i) ==
  IF i > Len(name) \/ name[i] = ":" THEN i - 1 ELSE RunEnd(name, i + 1)

\* the tokens of name from position i on are exactly lit
Follows(name, i, lit) ==
  /\ i + Len(lit) - 1 <= Len(name)
  /\ SubSeq(name, i, i + Len(lit) - 1) = lit

\* parse_row_index: ROW_NAME_RE.match(name), then the dataset test, then int(ix)
parse_row_index(name, ds) ==
  LET e1 == RunEnd(name, 1)
      e2 == RunEnd(name, e1 + 3)
      last == e2 + 6
  IN IF /\ e1 >= 1
        /\ Follows(name, e1 + 1, <<":", ":">>)
        /\ e2 >= e1 + 3
        /\ Follows(name, e2 + 1, <<":", ":", "row", ":", ":">>)
        /\ Len(name) = last
        /\ \E i \in 0..MaxIx : name[last] = ToString(i)
     THEN IF SubSeq(name, e1 + 3, e2) # ds THEN NoneIx
          ELSE CHOOSE i \in 0..MaxIx : name[last] = ToString(i)
     ELSE NoneIx

\* name LIKE '%::<dataset>::row::%'
RECURSIVE Contains(_, _)
Contains(name, lit) ==
  IF Len(name) < Len(lit) THEN FALSE
  ELSE Follows(name, 1, lit) \/ Contains(Tail(name), lit)

NameLike(name, ds) == Contains(name, <<":", ":">> \o ds \o <<":", ":", "row", ":", ":">>)

\* load_desired_csv_by_kind for one kind: the first column, stripped, without the
\* header row, the empty cells and, with dedupe, the repeated bodies
RECURSIVE LoadRows(_, _, _, _, _)
LoadRows(cells, i, hdr, dd, out) ==
  IF i > Len(cells) THEN out
  ELSE IF i = 1 /\ hdr THEN LoadRows(cells, i + 1, hdr, dd, out)
       ELSE IF Strip(cells[i]) = <<>> THEN LoadRows(cells, i + 1, hdr, dd, out)
            ELSE IF dd /\ \E j \in 1..Len(out) :
                             normalize_text(out[j]) = normalize_text(Strip(cells[i]))
                 THEN LoadRows(cells, i + 1, hdr, dd, out)
                 ELSE LoadRows(cells, i + 1, hdr, dd, Append(out, Strip(cells[i])))

load_desired_csv(cells, hdr, dd) == LoadRows(cells, 1, hdr, dd, <<>>)

\* ---- sync_info_csv.py: main ----

\* --desired, "info,example" by default
DesiredKinds == <<"info", "example">>
KindSet == {DesiredKinds[i] : i \in 1..Len(DesiredKinds)}

\* --dataset: any text; one id without and one with a colon
Datasets == {<<"ds">>, <<"a", ":", "b">>}

\* the first-column cells of ./info_items.csv, and the cells of ./example_items.csv
Cells == {<<"a">>, <<"a", SP, NL, "b">>, <<SP>>}
CellLists == UNION {[1..n -> Cells] : n \in 0..MaxCsvRows}
ExampleCells == << <<"b">> >>

\* a row of rag.rag_item with its rows of rag.rag_chunk
Item(kind, ds, ix, body) ==
  [kind |-> kind, name |-> RowName(kind, ds, ix), body |-> body,
   chunks |-> ChunkRows(chunk_text(body))]

\* bodies found in the store at the start, written by this program or by hand
StoredBodies == {<<"a">>, <<"a", CR, NL>>}

\* the stores at the start: any info rows 0..MaxCsvRows-1 of the dataset, the example
\* row 1, and a row of another dataset
InitialStores(ds) ==
  {{Item("info", ds, ix, f[ix]) : ix \in DOMAIN f}
      \cup {Item("example", ds, 1, <<"b">>), Item("info", <<"other">>, 0, <<"a">>)} :
   f \in UNION {[S -> StoredBodies] : S \in SUBSET (0..(MaxCsvRows - 1))}}

\* desired_maps[kind]: {ix: normalize_text(body) for ix, body in enumerate(rows)}
DesiredMap(cells, hdr, dd) ==
  LET loaded == load_desired_csv(cells, hdr, dd)
  IN [ix \in 0..(Len(loaded) - 1) |-> normalize_text(loaded[ix + 1])]

\* the SELECT of main: kind IN (...) AND name LIKE '%::<dataset>::row::%'
CurrentItems(d, ds) == {it \in d : it.kind \in KindSet /\ NameLike(it.name, ds)}

\* current_maps[kind]: the rows whose name parse_row_index accepts
CurrentMap(d, kind, ds) ==
  LET its == {it \in CurrentItems(d, ds) :
                 it.kind = kind /\ parse_row_index(it.name, ds) # NoneIx}
  IN [ix \in {parse_row_index(it.name, ds) : it \in its} |->
        normalize_text((CHOOSE it \in its : parse_row_index(it.name, ds) = ix).body)]

\* if not apply_changes: return the planned action
AppliesAlways(ap) == TRUE

Applies(ap) == ap

\* upsert_item_and_chunks that succeeds: the store and the action it returns
upsert_item_and_chunks(d, ds, kind, ix, body, ap) ==
  IF chunk_text(body) = <<>> THEN [db |-> d, action |-> "delete_if_exists"]
  ELSE IF ~Applies(ap) THEN [db |-> d, action |-> "UPSERT"]
       ELSE [db |-> {it \in d : ~(it.kind = kind /\ it.name = RowName(kind, ds, ix))}
                       \cup {Item(kind, ds, ix, body)},
             action |-> "UPSERT_APPLIED"]

\* delete_item that succeeds (the chunks go with the item)
delete_item(d, ds, kind, ix, ap) ==
  IF ~Applies(ap) THEN [db |-> d, action |-> "DELETE"]
  ELSE [db |-> {it \in d : ~(it.kind = kind /\ it.name = RowName(kind, ds, ix))},
        action |-> "DELETE_APPLIED"]

\* creates, updates, deletes of a kind, each sorted
PlanCreates(dmap, cmap) == SortedSeq(DOMAIN dmap \ DOMAIN cmap)
PlanDeletes(dmap, cmap) == SortedSeq(DOMAIN cmap \ DOMAIN dmap)
PlanUpdates(dmap, cmap) ==
  SortedSeq({ix \in DOMAIN dmap \cap DOMAIN cmap : dmap[ix] # cmap[ix]})

\* the calls of the three for-loops of a kind, in order
PlannedCalls(dmap, cmap) ==
  [i \in 1..Len(PlanCreates(dmap, cmap)) |-> [op |-> "upsert", ix |-> PlanCreates(dmap, cmap)[i]]]
  \o [i \in 1..Len(PlanUpdates(dmap, cmap)) |-> [op |-> "upsert", ix |-> PlanUpdates(dmap, cmap)[i]]]
  \o [i \in 1..Len(PlanDeletes(dmap, cmap)) |-> [op |-> "delete", ix |-> PlanDeletes(dmap, cmap)[i]]]

\* the first n calls made one after the other: the store and ops["actions"] after them
RECURSIVE RunCalls(_, _, _, _, _, _, _, _)
RunCalls(d, acts, calls, n, ds, kind, dmap, ap) ==
  IF n = 0 \/ calls = <<>> THEN [db |-> d, actions |-> acts]
  ELSE LET c == Head(calls)
           r == IF c.op = "upsert"
                  THEN upsert_item_and_chunks(d, ds, kind, c.ix, dmap[c.ix], ap)
                  ELSE delete_item(d, ds, kind, c.ix, ap)
       IN RunCalls(r.db, Append(acts, r.action), Tail(calls), n - 1, ds, kind, dmap, ap)

ZeroCounts == [desired |-> 0, current |-> 0, creates |-> 0, updates |-> 0, deletes |-> 0]

\* ops["counts"] after the plan of a kind was added
AddCounts(c, dmap, cmap) ==
  [desired |-> c.desired + Cardinality(DOMAIN dmap),
   current |-> c.current + Cardinality(DOMAIN cmap),
   creates |-> c.creates + Len(PlanCreates(dmap, cmap)),
   updates |-> c.updates + Len(PlanUpdates(dmap, cmap)),
   deletes |-> c.deletes + Len(PlanDeletes(dmap, cmap))]

InitSync ==
  /\ dataset \in Datasets
  /\ has_header \in BOOLEAN
  /\ dedupe \in BOOLEAN
  /\ apply \in BOOLEAN
  /\ \E cells \in CellLists : csv = [kind \in KindSet |->
                                       IF kind = "info" THEN cells ELSE ExampleCells]
  /\ db \in InitialStores(dataset)
  /\ sync_pc = "start"
  /\ kind_i = 0
  /\ desired_maps = <<>>
  /\ current_maps = <<>>
  /\ creates = <<>>
  /\ updates = <<>>
  /\ deletes = <<>>
  /\ counts = ZeroCounts
  /\ actions = <<>>
  /\ run_no = 1
  /\ prev_applied = FALSE
  /\ cands = <<>>
  /\ k = 0
  /\ lam = 0
  /\ per_item_cap = NoneCap
  /\ selected = <<>>
  /\ used_per_item = EmptyDict
  /\ pc = "idle"
  /\ result = <<>>
  /\ has_prev = FALSE
  /\ prev_k = 0
  /\ prev_result = <<>>
  /\ CliIdle
  /\ AsmIdle
  /\ SvcIdle
  /\ SqlIdle
  /\ UpIdle
  /\ TleIdle
  /\ FetchIdle

\* main up to the loop: the CSV files are loaded and the current items read
SyncLoad ==
  /\ sync_pc = "start"
  /\ desired_maps' = [kind \in KindSet |-> DesiredMap(csv[kind], has_header, dedupe)]
  /\ current_maps' = [kind \in KindSet |-> CurrentMap(db, kind, dataset)]
  /\ counts' = ZeroCounts
  /\ actions' = <<>>
  /\ creates' = <<>>
  /\ updates' = <<>>
  /\ deletes' = <<>>
  /\ kind_i' = 1
  /\ sync_pc' = "loop"
  /\ UNCHANGED <<dataset, has_header, dedupe, apply, csv, db, run_no, prev_applied,
                 mmrVars, cliVars, asmVars, svcVars, sqlVars, upVars, tleVars, fetchVars>>

\* one pass of 'for kind in desired_kinds' in which the first n calls succeed
SyncKindCalls(n) ==
  LET kind == DesiredKinds[kind_i]
      dmap == desired_maps[kind]
      cmap == current_maps[kind]
      r == RunCalls(db, actions, PlannedCalls(dmap, cmap), n, dataset, kind, dmap, apply)
  IN /\ creates' = PlanCreates(dmap, cmap)
     /\ updates' = PlanUpdates(dmap, cmap)
     /\ deletes' = PlanDeletes(dmap, cmap)
     /\ counts' = AddCounts(counts, dmap, cmap)
     /\ db' = r.db
     /\ actions' = r.actions

\* a pass in which every call succeeds
SyncKind ==
  /\ sync_pc = "loop"
  /\ kind_i <= Len(DesiredKinds)
  /\ SyncKindCalls(Len(PlannedCalls(desired_maps[DesiredKinds[kind_i]],
                                    current_maps[DesiredKinds[kind_i]])))
  /\ kind_i' = kind_i + 1
  /\ UNCHANGED <<dataset, has_header, dedupe, apply, csv, sync_pc, desired_maps,
                 current_maps, run_no, prev_applied,
                 mmrVars, cliVars, asmVars, svcVars, sqlVars, upVars, tleVars, fetchVars>>

\* a pass in which call n + 1 raises (the embedding or the database fails): the call
\* leaves the store as it was and the exception ends the run
SyncKindFails(n) ==
  /\ sync_pc = "loop"
  /\ kind_i <= Len(DesiredKinds)
  /\ n < Len(PlannedCalls(desired_maps[DesiredKinds[kind_i]],
                          current_maps[DesiredKinds[kind_i]]))
  /\ SyncKindCalls(n)
  /\ sync_pc' = "aborted"
  /\ UNCHANGED <<dataset, has_header, dedupe, apply, csv, kind_i, desired_maps,
                 current_maps, run_no, prev_applied,
                 mmrVars, cliVars, asmVars, svcVars, sqlVars, upVars, tleVars, fetchVars>>

\* the loop is over: the audit file and the summary
SyncFinish ==
  /\ sync_pc = "loop"
  /\ kind_i > Len(DesiredKinds)
  /\ sync_pc' = "done"
  /\ UNCHANGED <<dataset, has_header, dedupe, apply, csv, db, kind_i, desired_maps,
                 current_maps, creates, updates, deletes, counts, actions, run_no,
                 prev_applied,
                 mmrVars, cliVars, asmVars, svcVars, sqlVars, upVars, tleVars, fetchVars>>

\* the program is run again on the same CSV files, with or without --apply
SyncAgain(ap) ==
  /\ sync_pc = "done"
  /\ run_no < MaxRuns
  /\ run_no' = run_no + 1
  /\ prev_applied' = apply
  /\ apply' = ap
  /\ sync_pc' = "start"
  /\ UNCHANGED <<dataset, has_header, dedupe, csv, db, kind_i, desired_maps,
                 current_maps, creates, updates, deletes, counts, actions,
                 mmrVars, cliVars, asmVars, svcVars, sqlVars, upVars, tleVars, fetchVars>>

NextSync ==
  \/ SyncLoad
  \/ SyncKind
  \/ \E n \in 0..(2 * MaxCsvRows) : SyncKindFails(n)
  \/ SyncFinish
  \/ \E ap \in BOOLEAN : SyncAgain(ap)

SyncSpec == InitSync /\ [][NextSync]_vars

\* ---- sync_info_csv.py: upsert_item_and_chunks with apply_changes=True, step by step ----

\* the dataset and kind of the calls
UpDataset == <<"ds">>
UpKind == "info"

\* the bodies passed: one chunk, two chunks, and nothing left after the trim
UpBodies == {<<"b">>, <<"a", "b", "c">>, <<SP>>}

\* the stores the call finds: the row is absent or present with one or two chunks
UpStores(ix) ==
  {{Item(UpKind, <<"other">>, 0, <<"a">>)} \cup extra :
     extra \in {{}, {Item(UpKind, UpDataset, ix, <<"a">>)},
                {Item(UpKind, UpDataset, ix, <<"c", "b", "a">>)}}}

\* the row of the call is in the store
IsUpItem(it) == it.kind = UpKind /\ it.name = RowName(UpKind, UpDataset, up_ix)

\* the store after conn.rollback(): the statements of the transaction are undone
RollbackKept(comm, t) == t

Rollback(comm, t) == comm

InitUp ==
  /\ up_ix \in 0..MaxCsvRows
  /\ up_body \in UpBodies
  /\ committed \in UpStores(up_ix)
  /\ tx = committed
  /\ up_pc = "call"
  /\ up_ret = "none"
  /\ cands = <<>>
  /\ k = 0
  /\ lam = 0
  /\ per_item_cap = NoneCap
  /\ selected = <<>>
  /\ used_per_item = EmptyDict
  /\ pc = "idle"
  /\ result = <<>>
  /\ has_prev = FALSE
  /\ prev_k = 0
  /\ prev_result = <<>>
  /\ CliIdle
  /\ AsmIdle
  /\ SvcIdle
  /\ SqlIdle
  /\ SyncIdle
  /\ TleIdle
  /\ FetchIdle

\* chunks = chunk_text(body); no chunk: return delete_if_exists; embs = embed_chunks(chunks)
UpsertBegin ==
  /\ up_pc = "call"
  /\ IF chunk_text(up_body) = <<>>
       THEN /\ up_ret' = "delete_if_exists"
            /\ up_pc' = "returned"
       ELSE /\ up_ret' = up_ret
            /\ up_pc' = "select"
  /\ UNCHANGED <<up_ix, up_body, tx, committed,
                 mmrVars, cliVars, asmVars, svcVars, sqlVars, syncVars, tleVars, fetchVars>>

\* embed_chunks raises: nothing was sent to the database
UpsertEmbedFails ==
  /\ up_pc = "call"
  /\ chunk_text(up_body) # <<>>
  /\ up_pc' = "embed_raised"
  /\ UNCHANGED <<up_ix, up_body, tx, committed, up_ret,
                 mmrVars, cliVars, asmVars, svcVars, sqlVars, syncVars, tleVars, fetchVars>>

\* SELECT id; UPDATE rag.rag_item SET body = ... if the row exists, else INSERT
UpsertItem ==
  /\ up_pc = "select"
  /\ tx' = IF \E it \in tx : IsUpItem(it)
             THEN {IF IsUpItem(it) THEN [it EXCEPT !.body = up_body] ELSE it : it \in tx}
             ELSE tx \cup {[kind |-> UpKind, name |-> RowName(UpKind, UpDataset, up_ix),
                            body |-> up_body, chunks |-> {}]}
  /\ up_pc' = "chunk_delete"
  /\ UNCHANGED <<up_ix, up_body, committed, up_ret,
                 mmrVars, cliVars, asmVars, svcVars, sqlVars, syncVars, tleVars, fetchVars>>

\* DELETE FROM rag.rag_chunk WHERE item_id = ...
UpsertDeleteChunks ==
  /\ up_pc = "chunk_delete"
  /\ tx' = {IF IsUpItem(it) THEN [it EXCEPT !.chunks = {}] ELSE it : it \in tx}
  /\ up_pc' = "chunk_insert"
  /\ UNCHANGED <<up_ix, up_body, committed, up_ret,
                 mmrVars, cliVars, asmVars, svcVars, sqlVars, syncVars, tleVars, fetchVars>>

\* execute_values(INSERT INTO rag.rag_chunk ..., enumerate(chunks))
UpsertInsertChunks ==
  /\ up_pc = "chunk_insert"
  /\ tx' = {IF IsUpItem(it)
              THEN [it EXCEPT !.chunks = @ \cup ChunkRows(chunk_text(up_body))]
              ELSE it : it \in tx}
  /\ up_pc' = "commit"
  /\ UNCHANGED <<up_ix, up_body, committed, up_ret,
                 mmrVars, cliVars, asmVars, svcVars, sqlVars, syncVars, tleVars, fetchVars>>

\* conn.commit(); return UPSERT_APPLIED
UpsertCommit ==
  /\ up_pc = "commit"
  /\ committed' = tx
  /\ up_ret' = "UPSERT_APPLIED"
  /\ up_pc' = "returned"
  /\ UNCHANGED <<up_ix, up_body, tx,
                 mmrVars, cliVars, asmVars, svcVars, sqlVars, syncVars, tleVars, fetchVars>>

\* the next statement, or the commit, raises: except Exception: conn.rollback(); raise
UpsertFails ==
  /\ up_pc \in {"select", "chunk_delete", "chunk_insert", "commit"}
  /\ committed' = Rollback(committed, tx)
  /\ tx' = Rollback(committed, tx)
  /\ up_pc' = "raised"
  /\ UNCHANGED <<up_ix, up_body, up_ret,
                 mmrVars, cliVars, asmVars, svcVars, sqlVars, syncVars, tleVars, fetchVars>>

NextUp ==
  \/ UpsertBegin
  \/ UpsertEmbedFails
  \/ UpsertItem
  \/ UpsertDeleteChunks
  \/ UpsertInsertChunks
  \/ UpsertCommit
  \/ UpsertFails

UpSpec == InitUp /\ [][NextUp]_vars

\* ---- tle_ingest.py: run_once and chunk ----

\* the first index of range(57048, len(lst), n)
ChunkStart == 57048

\* lst[i:j] with 0-based bounds, clipped to the list as a Python slice is
PySlice(lst, i, j) ==
  SubSeq(lst, i + 1, IF j < Len(lst) THEN j ELSE Len(lst))

RECURSIVE ChunkFrom(_, _, _)
ChunkFrom(lst, n, i) ==
  IF i < Len(lst)
    THEN <<PySlice(lst, i, i + n)>> \o ChunkFrom(lst, n, i + n)
    ELSE <<>>

\* for i in range(57048, len(lst), n): yield lst[i:i+n]
chunk(lst, n) == ChunkFrom(lst, n, ChunkStart)

\* the ids of satcat in ascending order (SELECT ... ORDER BY norad_cat_id)
RECURSIVE AscendingList(_)
AscendingList(ids) ==
  IF ids = {}
    THEN <<>>
    ELSE LET m == CHOOSE x \in ids : \A y \in ids : x <= y
         IN  <<m>> \o AscendingList(ids \ {m})

NoradLists == {AscendingList(ids) : ids \in SUBSET (1..MaxNorads)}

InitTle ==
  /\ norads \in NoradLists
  /\ batch_size \in 1..MaxBatch
  /\ batches = <<>>
  /\ requested = <<>>
  /\ tle_pc = "fetched"
  /\ cands = <<>>
  /\ k = 0
  /\ lam = 0
  /\ per_item_cap = NoneCap
  /\ selected = <<>>
  /\ used_per_item = EmptyDict
  /\ pc = "idle"
  /\ result = <<>>
  /\ has_prev = FALSE
  /\ prev_k = 0
  /\ prev_result = <<>>
  /\ CliIdle
  /\ AsmIdle
  /\ SvcIdle
  /\ SqlIdle
  /\ SyncIdle
  /\ UpIdle
  /\ FetchIdle

\* for batch in chunk(norads, int(os.getenv('BATCH_SIZE', '100'))): the generator is made
RunOnceChunk ==
  /\ tle_pc = "fetched"
  /\ batches' = chunk(norads, batch_size)
  /\ tle_pc' = "loop"
  /\ UNCHANGED <<norads, batch_size, requested,
                 mmrVars, cliVars, asmVars, svcVars, sqlVars, syncVars, upVars, fetchVars>>

\* one turn of the loop: the next batch is requested, or the generator is exhausted
RunOnceNext ==
  /\ tle_pc = "loop"
  /\ IF batches # <<>>
       THEN /\ requested' = requested \o Head(batches)
            /\ batches' = Tail(batches)
            /\ tle_pc' = tle_pc
       ELSE /\ requested' = requested
            /\ batches' = batches
            /\ tle_pc' = "done"
  /\ UNCHANGED <<norads, batch_size,
                 mmrVars, cliVars, asmVars, svcVars, sqlVars, syncVars, upVars, fetchVars>>

NextTle ==
  \/ RunOnceChunk
  \/ RunOnceNext

TleSpec == InitTle /\ [][NextTle]_vars

\* ---- tle_ingest.py: fetch_gp_for_ids ----

\* for attempt in range(3)
MaxAttempts == 3

\* the throttling statuses of the back-off branch
ThrottleStatuses == {429, 502, 503}

\* the status codes the server answers with
Statuses == {200, 404, 500} \cup ThrottleStatuses

\* r.raise_for_status() raises for the 4xx and 5xx codes
RaiseForStatusServerOnly(status) == status >= 500 /\ status <= 599

RaiseForStatus(status) == status >= 400 /\ status <= 599

\* r.json() of a successful answer: one record per requested id, or the empty result
Body(ids, full) == IF full THEN ids ELSE <<>>

\* mid = max(1, len(ids) // 2)
Mid(ids) == IF Len(ids) \div 2 > 1 THEN Len(ids) \div 2 ELSE 1

\* the requests.HTTPError of r.raise_for_status() for an answer with status
HTTPError(status) == <<"HTTPError", ToString(status)>>

\* the error of a sess.get that got no answer
RequestError == <<"ConnectionError">>

\* a new call of fetch_gp_for_ids(sess, ids)
Frame(ids) ==
  [ids |-> ids, attempt |-> 0, gets |-> 0, status |-> 0, stage |-> "loop", left |-> <<>>]

Top(stack) == stack[Len(stack)]

Pop(stack) == SubSeq(stack, 1, Len(stack) - 1)

ReplaceTop(stack, fr) == Append(Pop(stack), fr)

\* the call on top of stack has been popped and returned value: the caller stores the
\* left result and calls the right half, or returns left + right to its own caller
RECURSIVE Deliver(_, _)
Deliver(stack, value) ==
  IF stack = <<>>
    THEN [stack |-> <<>>, outcome |-> "result", result |-> value]
    ELSE LET fr == Top(stack)
         IN  IF fr.stage = "left"
               THEN [stack |-> Append(ReplaceTop(stack, [fr EXCEPT !.left = value,
                                                                   !.stage = "right"]),
                                      Frame(PySlice(fr.ids, Mid(fr.ids), Len(fr.ids)))),
                     outcome |-> "running", result |-> <<>>]
               ELSE Deliver(Pop(stack), fr.left \o value)

FetchLists == {ids \in NoradLists : Len(ids) >= 1 /\ Len(ids) <= MaxBatch}

InitFetch ==
  /\ fetch_ids \in FetchLists
  /\ fetch_stack = <<Frame(fetch_ids)>>
  /\ fetch_ret = <<>>
  /\ fetch_outcome = "running"
  /\ fetch_result = <<>>
  /\ fetch_error = <<>>
  /\ n_gets = 0
  /\ cands = <<>>
  /\ k = 0
  /\ lam = 0
  /\ per_item_cap = NoneCap
  /\ selected = <<>>
  /\ used_per_item = EmptyDict
  /\ pc = "idle"
  /\ result = <<>>
  /\ has_prev = FALSE
  /\ prev_k = 0
  /\ prev_result = <<>>
  /\ CliIdle
  /\ AsmIdle
  /\ SvcIdle
  /\ SqlIdle
  /\ SyncIdle
  /\ UpIdle
  /\ TleIdle

\* one turn of the loop: r = sess.get(url) answers status; split, back off, raise or return
FetchGet(status, full) ==
  /\ fetch_outcome = "running"
  /\ Top(fetch_stack).stage = "loop"
  /\ Top(fetch_stack).attempt < MaxAttempts
  /\ n_gets' = n_gets + 1
  /\ LET fr == [Top(fetch_stack) EXCEPT !.gets = @ + 1, !.status = status]
     IN  IF status = 500 /\ Len(fr.ids) > 1
           THEN /\ fetch_stack' = Append(ReplaceTop(fetch_stack, [fr EXCEPT !.stage = "left"]),
                                         Frame(PySlice(fr.ids, 0, Mid(fr.ids))))
                /\ UNCHANGED <<fetch_ret, fetch_outcome, fetch_result, fetch_error>>
           ELSE IF status \in ThrottleStatuses
             THEN /\ fetch_stack' = ReplaceTop(fetch_stack, [fr EXCEPT !.attempt = @ + 1])
                  /\ UNCHANGED <<fetch_ret, fetch_outcome, fetch_result, fetch_error>>
             ELSE IF RaiseForStatus(status)
               THEN /\ fetch_stack' = <<>>
                    /\ fetch_outcome' = "raised"
                    /\ fetch_error' = HTTPError(status)
                    /\ UNCHANGED <<fetch_ret, fetch_result>>
               ELSE LET body == Body(fr.ids, full)
                        after == Deliver(Pop(fetch_stack), body)
                    IN  /\ fetch_ret' = body
                        /\ fetch_stack' = after.stack
                        /\ fetch_outcome' = after.outcome
                        /\ fetch_result' = after.result
                        /\ fetch_error' = fetch_error
  /\ UNCHANGED <<fetch_ids,
                 mmrVars, cliVars, asmVars, svcVars, sqlVars, syncVars, upVars, tleVars>>

\* sess.get raises (timeout, connection error): the error leaves every active call
FetchGetRaises ==
  /\ fetch_outcome = "running"
  /\ Top(fetch_stack).stage = "loop"
  /\ Top(fetch_stack).attempt < MaxAttempts
  /\ n_gets' = n_gets + 1
  /\ fetch_stack' = <<>>
  /\ fetch_outcome' = "raised"
  /\ fetch_error' = RequestError
  /\ UNCHANGED <<fetch_ids, fetch_ret, fetch_result,
                 mmrVars, cliVars, asmVars, svcVars, sqlVars, syncVars, upVars, tleVars>>

\* the loop ran out: r.raise_for_status() on the last answer, then the function ends
FetchExhausted ==
  /\ fetch_outcome = "running"
  /\ Top(fetch_stack).stage = "loop"
  /\ Top(fetch_stack).attempt = MaxAttempts
  /\ fetch_stack' = <<>>
  /\ IF RaiseForStatus(Top(fetch_stack).status)
       THEN /\ fetch_outcome' = "raised"
            /\ fetch_error' = HTTPError(Top(fetch_stack).status)
       ELSE /\ fetch_outcome' = "none"
            /\ fetch_error' = fetch_error
  /\ UNCHANGED <<fetch_ids, fetch_ret, fetch_result, n_gets,
                 mmrVars, cliVars, asmVars, svcVars, sqlVars, syncVars, upVars, tleVars>>

NextFetch ==
  \/ \E status \in Statuses : \E ok \in BOOLEAN :
        FetchGet(status, ok)
  \/ FetchGetRaises
  \/ FetchExhausted

\* the call is sequential code: an enabled step is taken
FetchSpec == InitFetch /\ [][NextFetch]_vars /\ WF_vars(NextFetch)

\* ---- the end of generate_sql: the adapter call and validate_safe_select ----

\* the node classes of sqlglot.exp the model tells apart; which of the optional ones
\* exist depends on the installed sqlglot, and getattr(exp, name, None) is None for the
\* others
CoreClasses == {"Select", "Insert", "Update", "Delete", "Drop", "Create", "Transaction",
                "Command", "Table"}
OptionalClasses == {"InsertOverwrite", "Alter", "AlterTable", "Truncate", "Execute"}

\* the classes validate_safe_select looks for
BlockedClasses == {"Insert", "InsertOverwrite", "Update", "Delete", "Drop", "Alter",
                   "AlterTable", "Truncate", "Create", "Execute", "Transaction"}

\* parse_one raised
ParseError == <<"ParseError">>

\* a parse tree: the classes of the nodes on a path from the root (a statement, a
\* subquery or operand of it, ...)
Trees(classes) == UNION {[1..n -> classes] : n \in 1..MaxDepth}

\* tree.walk()
Walk(tree) == {tree[i] : i \in 1..Len(tree)}

\* _has_node(tree, candidate), candidate being None when exp has no such class
_has_node(tree, candidate, classes) ==
  IF candidate \notin classes THEN FALSE ELSE candidate \in Walk(tree)

NoSelectWarning == "No SELECT found; query may not return rows."

\* validate_safe_select(sql): the exception it raises and the list it returns
validate_safe_select(parsed, classes) ==
  IF parsed = ParseError THEN [raises |-> "ValueError", returns |-> {}]
  ELSE IF \E c \in BlockedClasses : _has_node(parsed, c, classes)
       THEN [raises |-> "ValueError", returns |-> {}]
       ELSE [raises |-> "none",
             returns |-> IF "Select" \in Walk(parsed) THEN {} ELSE {NoSelectWarning}]

\* a generate_sql request that has built its prompt; the backend would answer llm_sql
InitSql ==
  /\ \E opt \in SUBSET OptionalClasses :
        /\ exp_classes = CoreClasses \cup opt
        /\ llm_sql \in Trees(CoreClasses \cup opt) \cup {ParseError}
  /\ sql_pc = "adapter"
  /\ sql_raised = "none"
  /\ sql_status = 0
  /\ warnings = {}
  /\ cands = <<>>
  /\ k = 0
  /\ lam = 0
  /\ per_item_cap = NoneCap
  /\ selected = <<>>
  /\ used_per_item = EmptyDict
  /\ pc = "idle"
  /\ result = <<>>
  /\ has_prev = FALSE
  /\ prev_k = 0
  /\ prev_result = <<>>
  /\ CliIdle
  /\ AsmIdle
  /\ SvcIdle
  /\ IngestIdle

\* adapter = build_adapter(); sql_text = await adapter.sql_generate(...); the clean-up
\* of the text; validate_safe_select; the response
GenerateSqlRespond ==
  /\ sql_pc = "adapter"
  /\ sql_pc' = "done"
  /\ IF "sql_generate" \notin AdapterMethods
       THEN /\ sql_raised' = "AttributeError"
            /\ sql_status' = 500
            /\ warnings' = {}
       ELSE LET v == validate_safe_select(llm_sql, exp_classes)
            IN /\ sql_raised' = v.raises
               /\ sql_status' = IF v.raises = "ValueError" THEN 400 ELSE 200
               /\ warnings' = v.returns
  /\ UNCHANGED <<exp_classes, llm_sql, mmrVars, cliVars, asmVars, svcVars, ingestVars>>

NextSql == GenerateSqlRespond

SqlSpec == InitSql /\ [][NextSql]_vars

\* ---- vocabulary of the properties (stated on the candidate list and the selection only) ----

Min(a, b) == IF a <= b THEN a ELSE b

Prefix(sel, n) == SubSeq(sel, 1, n)

IsPrefix(s, t) == Len(s) <= Len(t) /\ SubSeq(t, 1, Len(s)) = s

Elems(sel) == {sel[n] : n \in 1..Len(sel)}

\* number of selected candidates of group g
CountIn(sel, g) == Cardinality({n \in 1..Len(sel) : cands[sel[n]].item_id = g})

\* redundancy: 1 if some already-selected candidate has the same group
Redundancy(j, pre) == IF CountIn(pre, cands[j].item_id) > 0 THEN 1 ELSE 0

\* lambda*similarity - (1-lambda)*redundancy, in units of 1/(SimOne*LamDen)
MmrScore(j, pre) == lam * cands[j].sim - (LamDen - lam) * SimOne * Redundancy(j, pre)

\* no per-group cap is set (0 or None)
Uncapped == per_item_cap = 0 \/ per_item_cap = NoneCap

\* unselected candidates whose group is below the cap
Eligible(pre) ==
  {j \in 1..Len(cands) :
     /\ j \notin Elems(pre)
     /\ (Uncapped \/ CountIn(pre, cands[j].item_id) < per_item_cap)}

\* the eligible candidates that share the highest score
TopScored(pre) ==
  {j \in Eligible(pre) : \A j2 \in Eligible(pre) : MmrScore(j, pre) >= MmrScore(j2, pre)}

\* j1 comes before j2 in "descending similarity, earliest input position first among equals"
BySimThenPos(j1, j2) ==
  cands[j1].sim > cands[j2].sim \/ (cands[j1].sim = cands[j2].sim /\ j1 <= j2)

\* the reference procedure of the lambda = 1 case
RECURSIVE RefScan(_, _)
RefScan(rest, taken) ==
  IF rest = {} \/ Len(taken) >= k THEN taken
  ELSE LET j == CHOOSE x \in rest : \A y \in rest : BySimThenPos(x, y)
       IN IF Uncapped \/ CountIn(taken, cands[j].item_id) < per_item_cap
          THEN RefScan(rest \ {j}, Append(taken, j))
          ELSE RefScan(rest \ {j}, taken)

TopKBySimilarity == RefScan(1..Len(cands), <<>>)

InScenarioA == cands = ScenarioA /\ k = 2 /\ per_item_cap = 1 /\ lam = 10

\* ---- properties ----

\* C1: with a per-group cap c >= 1 the selection never holds more than c candidates
\* of one group, at any step and in the returned list; on Scenario A (k=2, cap=1,
\* lambda=0.5) the returned selection is [1, 3].
C1_GroupCap ==
  /\ per_item_cap >= 1 =>
       \A g \in Items : CountIn(selected, g) <= per_item_cap /\ CountIn(result, g) <= per_item_cap
  /\ (pc = "done" /\ InScenarioA) => result = <<1, 3>>

C1_Witness == pc = "done" /\ InScenarioA /\ result = <<1, 3>>

\* C2: the returned selection is no longer than min(k, number of candidates)
\* (stated for k >= 0, where the bound can be met at all).
C2_LengthBound ==
  (pc = "done" /\ k >= 0) => Len(result) <= Min(k, Len(cands))

\* C3: an empty candidate list or k <= 0 gives the empty selection.
C3_EmptyWhenNothingAsked ==
  (pc = "done" /\ (cands = <<>> \/ k <= 0)) => result = <<>>

\* C4: for the same candidates, lambda and cap, the selection returned for the
\* smaller k is a prefix of the selection returned for the larger k.
C4_PrefixStable ==
  (pc = "done" /\ has_prev /\ prev_k <= k) => IsPrefix(prev_result, result)

C4_Witness ==
  /\ pc = "done" /\ has_prev /\ prev_k < k
  /\ Len(prev_result) >= 1 /\ Len(prev_result) < Len(result)
  /\ result[Len(result)] < result[1]

\* C5: with lambda = 1 the returned selection is the result of scanning the
\* candidates by descending similarity (earliest first among equals) and taking
\* each one whose group is below the cap until k are taken (k >= 0).
C5_LambdaOneIsTopK ==
  (pc = "done" /\ lam = LamDen /\ k >= 0) => result = TopKBySimilarity

\* C6 (as stated): at every pick after the seed where two or more eligible
\* candidates share the highest score, the pick is the one of higher raw similarity,
\* and the earliest among those of equal similarity.
C6_TieBySimilarity ==
  \A n \in 2..Len(selected) :
     LET T == TopScored(Prefix(selected, n - 1))
     IN Cardinality(T) >= 2 =>
          (selected[n] \in T /\ \A j \in T : BySimThenPos(selected[n], j))

\* C6 (amended): at every pick after the seed where two or more eligible candidates
\* share the highest score, the pick is the one earliest in the input list.
C6_TieByPosition ==
  \A n \in 2..Len(selected) :
     LET T == TopScored(Prefix(selected, n - 1))
     IN Cardinality(T) >= 2 =>
          (selected[n] \in T /\ \A j \in T : selected[n] <= j)

C6_Witness ==
  \E n \in 2..Len(selected) :
     LET T == TopScored(Prefix(selected, n - 1))
     IN /\ selected[n] \in T
        /\ \E j \in T : j > selected[n] /\ cands[j].sim > cands[selected[n]].sim

\* C7: every pick after the seed is an eligible candidate whose score
\* lambda*sim - (1-lambda)*redundancy is the maximum over the eligible candidates.
C7_PickMaximisesScore ==
  \A n \in 2..Len(selected) :
     LET pre == Prefix(selected, n - 1)
     IN /\ selected[n] \in Eligible(pre)
        /\ \A j \in Eligible(pre) : MmrScore(selected[n], pre) >= MmrScore(j, pre)

C7_Witness ==
  \E n \in 2..Len(selected) :
     LET pre == Prefix(selected, n - 1)
     IN \E j \in Eligible(pre) :
          /\ cands[j].sim > cands[selected[n]].sim
          /\ Redundancy(j, pre) = 1
          /\ Redundancy(selected[n], pre) = 0

\* C8: for a non-empty list and k >= 1 the first selected candidate has the maximum
\* similarity and is the earliest such candidate, whatever the order of the list;
\* right after the seed its group is the only one counted, once.
IsFirstMax(i) ==
  /\ \A j \in 1..Len(cands) : cands[j].sim <= cands[i].sim
  /\ \A j \in 1..(i - 1) : cands[j].sim < cands[i].sim

C8_SeedIsFirstMax ==
  /\ (pc = "loop" /\ Len(selected) = 1) =>
        used_per_item = (cands[selected[1]].item_id :> 1)
  /\ (pc = "loop" /\ k >= 1) => IsFirstMax(selected[1])
  /\ (pc = "done" /\ cands # <<>> /\ k >= 1) => (result # <<>> /\ IsFirstMax(result[1]))

C8_Witness ==
  /\ pc = "done" /\ k >= 1 /\ result # <<>>
  /\ result[1] > 1
  /\ \E j \in (result[1] + 1)..Len(cands) : cands[j].sim = cands[result[1]].sim

\* C9: no position of the candidate list appears twice in the selection.
NoDuplicates(sel) == \A m, n \in 1..Len(sel) : sel[m] = sel[n] => m = n

C9_NoDuplicates == NoDuplicates(selected) /\ NoDuplicates(result)

C9_Witness == pc = "done" /\ Len(result) >= 3 /\ lam = LamDen /\ per_item_cap = 0

\* C10: a call always returns, and for k >= 1 a returned selection shorter than k
\* leaves no eligible candidate: every unselected candidate is in a group at the cap.
C10_StopsOnlyWhenExhausted ==
  /\ <>(pc = "done")
  /\ [](  (pc = "done" /\ k >= 1 /\ Len(result) < k) =>
            \A j \in 1..Len(cands) :
               j \notin Elems(result) =>
                  (~Uncapped /\ CountIn(result, cands[j].item_id) >= per_item_cap))

C10_Witness ==
  /\ pc = "done" /\ k >= 1 /\ Len(result) < k
  /\ \E j \in 1..Len(cands) : j \notin Elems(result)

\* C11 (as stated): with lambda = 0 no pick after the seed takes a candidate whose group
\* is already selected while an eligible candidate of a new group remains, and the pick
\* is, among the eligible candidates of minimum redundancy, the one of higher
\* similarity, then the earliest.
LeastRedundant(pre) ==
  {j \in Eligible(pre) : \A j2 \in Eligible(pre) : Redundancy(j, pre) <= Redundancy(j2, pre)}

C11_LambdaZeroBySimilarity ==
  lam = 0 =>
    \A n \in 2..Len(selected) :
       LET pre == Prefix(selected, n - 1)
       IN /\ selected[n] \in LeastRedundant(pre)
          /\ \A j \in LeastRedundant(pre) : BySimThenPos(selected[n], j)

\* C11 (amended): with lambda = 0 no pick after the seed takes a candidate whose group
\* is already selected while an eligible candidate of a new group remains, and the pick
\* is the earliest in the input list among the eligible candidates of minimum redundancy.
C11_LambdaZeroByPosition ==
  lam = 0 =>
    \A n \in 2..Len(selected) :
       LET pre == Prefix(selected, n - 1)
       IN /\ selected[n] \in LeastRedundant(pre)
          /\ \A j \in LeastRedundant(pre) : selected[n] <= j

C11_Witness ==
  /\ lam = 0
  /\ \E n \in 2..Len(selected) :
       LET pre == Prefix(selected, n - 1)
       IN /\ Redundancy(selected[n], pre) = 0
          /\ \E j \in LeastRedundant(pre) : cands[j].sim > cands[selected[n]].sim

C13_NoCapNoLimit ==
  (pc = "done" /\ Uncapped /\ k >= 1) => Len(result) = Min(k, Len(cands))

C13_Witness ==
  /\ pc = "done" /\ per_item_cap = 0 /\ k >= 2 /\ Len(cands) >= 2
  /\ \A j \in 1..Len(cands) : cands[j].item_id = cands[1].item_id
  /\ Len(result) = Min(k, Len(cands))

\* C14: in rag_query with a minimum similarity set, the list passed to mmr_select is
\* the fetched rows of similarity 1 - distance >= threshold, in fetched order; threshold
\* 0.6 on similarities [0.9, 0.5, 0.7] passes [0.9, 0.7].
RowPasses(r) == SimOne - r.dist >= min_sim

PassedRows == SelectSeq(rows, RowPasses)

C14_ThresholdFilter ==
  (pc # "fetched" /\ min_sim # NoneSim) =>
     /\ Len(cands) = Len(PassedRows)
     /\ \A i \in 1..Len(cands) :
          /\ cands[i].item_id = PassedRows[i].item_id
          /\ cands[i].dist = PassedRows[i].dist
          /\ cands[i].sim = SimOne - PassedRows[i].dist
     /\ (rows = ScenarioC /\ min_sim = 12) => [i \in 1..Len(cands) |-> cands[i].sim] = <<18, 14>>

C14_Witness ==
  /\ pc = "entry" /\ min_sim = 12
  /\ \E i \in 1..Len(rows) : SimOne - rows[i].dist < min_sim
  /\ \E i \in 1..Len(cands) : cands[i].sim = min_sim
  /\ Len(cands) >= 2

\* ---- vocabulary of the properties of build_prompt ----

IsBlank(t) == t = NL \/ t = SP

\* the string without its leading and trailing white space
Trimmed(str) ==
  LET solid == {i \in 1..Len(str) : ~IsBlank(str[i])}
  IN IF solid = {} THEN <<>>
     ELSE SubSeq(str, CHOOSE i \in solid : \A j \in solid : i <= j,
                      CHOOSE i \in solid : \A j \in solid : i >= j)

Positions(str, t) == {p \in 1..Len(str) : str[p] = t}

IsSuffix(s, t) == Len(s) <= Len(t) /\ SubSeq(t, Len(t) - Len(s) + 1, Len(t)) = s

IsFragmentText(t) == \E fr \in Fragments : t = fr.chunk_text

\* the fragment of the documented example
ScenarioD == <<[kind |-> "g", name |-> "5", chunk_ix |-> "0", chunk_text |-> "hello"]>>

InScenarioD ==
  asm_pc = "done" /\ header # <<>> /\ footer # <<>> /\ cite /\ chunks = ScenarioD

\* C16 (as stated): with header h, footer f, citations on and the one fragment
\* (g, 5, 0, hello) the document is h, one blank line, the context marker, one blank
\* line, [g:5#0], newline, hello, one blank line, the instructions marker, one blank
\* line, f, and no other blank line.
C16_ScenarioDOneBlankLine ==
  InScenarioD =>
    doc = Trimmed(header) \o <<NL, NL, CTX, NL, NL>>
          \o <<"[", "g", ":", "5", "#", "0", "]", NL, "hello">>
          \o <<NL, NL, INS, NL, NL>> \o Trimmed(footer)

\* C16 (amended): the document is the trimmed h, two blank lines, the context marker
\* line, one blank line, [g:5#0], newline, hello, two blank lines, the instructions
\* marker line, one blank line, the trimmed f.
C16_ScenarioDTwoBlankLines ==
  InScenarioD =>
    doc = Trimmed(header) \o <<NL, NL, NL, CTX, NL, NL>>
          \o <<"[", "g", ":", "5", "#", "0", "]", NL, "hello">>
          \o <<NL, NL, NL, INS, NL, NL>> \o Trimmed(footer)

C16_Witness == InScenarioD /\ header = <<"H">> /\ footer = <<"F">> /\ Len(doc) = 23

\* C17: in both assemblers the document is the trimmed header first iff a header is
\* given, then the context marker (in every document), then the fragments, then the
\* instructions marker and the trimmed footer last iff a footer is given.
C17_DocumentStructure ==
  asm_pc = "done" =>
    /\ Cardinality(Positions(doc, CTX)) = 1
    /\ IF header # <<>>
       THEN IsPrefix(Trimmed(header) \o JoinSep \o ContextMarker, doc)
       ELSE IsPrefix(ContextMarker, doc)
    /\ IF footer # <<>>
       THEN IsSuffix(InstructionsMarker \o JoinSep \o Trimmed(footer), doc)
            /\ Cardinality(Positions(doc, INS)) = 1
       ELSE Positions(doc, INS) = {}
    /\ \A p \in 1..Len(doc) :
         IsFragmentText(doc[p]) =>
            /\ \A q \in Positions(doc, CTX) : q < p
            /\ \A q \in Positions(doc, INS) : p < q

\* C18: build_prompt emits one block per element of chunks, in input order, without
\* reordering, truncation or deduplication, each with its citation tag iff cite is set,
\* and changes neither its arguments nor any other state.
TextPositions == {p \in 1..Len(doc) : IsFragmentText(doc[p])}

\* the p-th smallest element of a finite set of integers
RECURSIVE Nth(_, _)
Nth(S, n) ==
  LET m == CHOOSE x \in S : \A y \in S : x <= y
  IN IF n = 1 THEN m ELSE Nth(S \ {m}, n - 1)

BlocksInOrder ==
  /\ Cardinality(TextPositions) = Len(chunks)
  /\ Cardinality(Positions(doc, "[")) = (IF cite THEN Len(chunks) ELSE 0)
  /\ \A i \in 1..Len(chunks) :
       LET p == Nth(TextPositions, i)
       IN /\ doc[p] = chunks[i].chunk_text
          /\ p >= 2 /\ doc[p - 1] = NL
          /\ IF cite
             THEN p >= 9 /\ SubSeq(doc, p - 8, p - 2) =
                    <<"[", chunks[i].kind, ":", chunks[i].name, "#", chunks[i].chunk_ix, "]">>
             ELSE p = 2 \/ doc[p - 2] = NL

C18_BlocksInOrderAndPure ==
  /\ [](asm_pc = "done" => BlocksInOrder)
  /\ [][asm_pc' = "done" =>
          UNCHANGED <<chunks, header, footer, cite, mmrVars, cliVars, svcVars, sqlVars, ingestVars>>]_vars

C18_Witness ==
  /\ asm_pc = "done" /\ cite /\ Len(chunks) = 2 /\ chunks[1] = chunks[2]
  /\ Cardinality(TextPositions) = 2

\* ---- vocabulary of the properties of the service ----

\* the latest request called mmr_select
CalledSelector == req_kind \in {"sql_search", "intuition_search", "intuition_same"}

\* the latest request fetched rows from the store
DidFetch == req_kind \in {"sql_search", "intuition_search"}

\* how often a row (item, distance) occurs in a list
Occurrences(list, r) ==
  Cardinality({i \in 1..Len(list) : list[i].item_id = r.item_id /\ list[i].dist = r.dist})

\* C15: no candidate of similarity below 0.60 is passed to mmr_select by
\* search_rag_context, on the SQL path or the intuition path, and every fetched
\* candidate of similarity at or above 0.60 is passed.
C15_ServiceThreshold ==
  /\ CalledSelector => \A i \in 1..Len(mmr_arg) : mmr_arg[i].sim >= SvcMinSim
  /\ DidFetch =>
       \A i \in 1..Len(fetched) :
          SimOne - fetched[i].dist >= SvcMinSim => Occurrences(mmr_arg, fetched[i]) >= 1

\* C19: the pool from which the context of a request for q is selected holds only rows
\* retrieved for q, each at most once.
C19_PoolOfThisQuestionOnly ==
  CalledSelector =>
     \A i \in 1..Len(mmr_arg) :
        Occurrences(mmr_arg, mmr_arg[i]) <= Occurrences(store[req_question], mmr_arg[i])

\* C20: the context generate_sql takes from the cache for q is the context a fresh
\* search_rag_context(q) returns for the same store.
C20_CacheEqualsFreshSearch ==
  req_kind = "sql_cached" => rag_context = OrNone(ContextOf(AllRows(store[req_question])))

\* the latest request ended in a failed retrieval
RetrievalFailed == req_kind \in {"sql_failed", "intuition_failed"}

\* C21: once a retrieval step has completed, current_prompt is the question of the
\* request whose retrieval step completed last, current_rag_context is not None and is
\* the context stored by the last request that wrote it, which asked that same
\* question; a generate_sql cache hit uses a context stored for its own question.
C21_CacheSlotPaired ==
  /\ last_done_question # NoneStr =>
       /\ current_prompt = last_done_question
       /\ current_rag_context # NoneStr
       /\ writer_question = current_prompt
       /\ current_rag_context = writer_context
  /\ req_kind = "sql_cached" =>
       /\ writer_question = req_question
       /\ rag_context = writer_context

C21_Witness ==
  /\ req_kind = "sql_cached"
  /\ req_question = <<"q1">>
  /\ n_requests = MaxRequests
  /\ rag_context # <<"(none)">>
  /\ \E i \in 1..Len(intuition_rags) : intuition_rags[i].item_id = 2
  /\ \A i \in 1..Len(store[<<"q1">>]) : store[<<"q1">>][i].item_id = 1

C23_EmptyResultIsNone ==
  CalledSelector =>
     /\ search_ret = NoneStr <=> mmr_select(mmr_arg, SvcTopK, SvcMmr, SvcPerItemCap) = <<>>
     /\ search_ret = NoneStr => rag_context = <<"(none)">>
     /\ search_ret # NoneStr => rag_context = search_ret
     /\ raised \notin {"RuntimeError", "psycopg2.Error"}

C23_Witness ==
  /\ req_kind = "intuition_search"
  /\ fetched # <<>>
  /\ mmr_arg = <<>>
  /\ rag_context = <<"(none)">>

\* C24: mmr_select is never entered from the rag_query command line with lam < 0,
\* lam > 1 or per_item_cap < 0.
C24_InvalidConfigRejected ==
  pc \in {"entry", "loop", "done"} => (0 <= lam /\ lam <= LamDen /\ per_item_cap >= 0)

\* the classes the property names
NamedClasses == {"Insert", "InsertOverwrite", "Update", "Delete", "Drop", "Alter",
                 "Truncate", "Create", "Execute", "Transaction"}

HasNamedNode == llm_sql # ParseError /\ \E i \in 1..Len(llm_sql) : llm_sql[i] \in NamedClasses

HasSelectNode == llm_sql # ParseError /\ \E i \in 1..Len(llm_sql) : llm_sql[i] = "Select"

\* C25: a generate_sql request whose SQL cannot be parsed or has an Insert,
\* InsertOverwrite, Update, Delete, Drop, Alter, Truncate, Create, Execute or
\* Transaction node at any depth ends with status 400 and never with a successful
\* response; for all other SQL the warnings are returned, with the 'No SELECT found'
\* warning exactly when the tree has no Select node.
C25_UnsafeSqlRejected ==
  sql_pc = "done" =>
     /\ sql_status = 200 => ~HasNamedNode
     /\ (llm_sql = ParseError \/ HasNamedNode) => sql_status = 400
     /\ (llm_sql # ParseError /\ ~HasNamedNode) =>
          /\ sql_status = 200
          /\ NoSelectWarning \in warnings <=> ~HasSelectNode

\* ---- vocabulary of the properties of the CSV sync ----

\* the row indexes of a kind the store holds for the dataset
StoredIxs(kind) ==
  {ix \in 0..MaxIx : \E it \in db : it.kind = kind /\ it.name = RowName(kind, dataset, ix)}

\* the body the store holds for a row of a kind
StoredBody(kind, ix) ==
  (CHOOSE it \in db : it.kind = kind /\ it.name = RowName(kind, dataset, ix)).body

SetOf(seq) == {seq[i] : i \in 1..Len(seq)}

\* C26: after a run with --apply in which every operation succeeds the stored map
\* {row index -> normalized body} of each desired kind equals the desired map; a run
\* that follows it immediately on the same files plans no create, update or delete;
\* the create, update and delete index sets of a kind are pairwise disjoint.
C26_SyncConvergesAndIsIdempotent ==
  /\ (sync_pc = "done" /\ apply) =>
        \A kind \in KindSet :
           /\ StoredIxs(kind) = DOMAIN desired_maps[kind]
           /\ \A ix \in StoredIxs(kind) :
                 normalize_text(StoredBody(kind, ix)) = desired_maps[kind][ix]
  /\ (sync_pc = "done" /\ prev_applied) =>
        (counts.creates = 0 /\ counts.updates = 0 /\ counts.deletes = 0)
  /\ sync_pc \in {"loop", "done", "aborted"} =>
        /\ SetOf(creates) \cap SetOf(updates) = {}
        /\ SetOf(creates) \cap SetOf(deletes) = {}
        /\ SetOf(updates) \cap SetOf(deletes) = {}

\* C27: a run without --apply changes no item and no chunk of the store, and every
\* action it records is UPSERT, DELETE or delete_if_exists.
C27_DryRunChangesNothing ==
  /\ []((~apply /\ sync_pc \in {"loop", "done", "aborted"}) =>
          \A i \in 1..Len(actions) : actions[i] \in {"UPSERT", "DELETE", "delete_if_exists"})
  /\ [][(~apply /\ sync_pc \in {"start", "loop"}) => db' = db]_vars

C27_Witness ==
  /\ sync_pc = "done"
  /\ ~apply
  /\ run_no = 1
  /\ \E i \in 1..Len(actions) : actions[i] = "UPSERT"
  /\ \E i \in 1..Len(actions) : actions[i] = "DELETE"

\* the chunks of every item of a store are the chunks of its body, numbered from 0
ChunksMatchBodies(items) ==
  \A it \in items :
     /\ {c.chunk_ix : c \in it.chunks} = 0..(Len(chunk_text(it.body)) - 1)
     /\ \A c \in it.chunks : c.chunk_text = chunk_text(it.body)[c.chunk_ix + 1]
     /\ Cardinality(it.chunks) = Len(chunk_text(it.body))

\* C28: the committed store never holds an item whose chunks are not those of its body;
\* a call that raises leaves the committed store as it was; after UPSERT_APPLIED the
\* store holds the item with the new body and exactly its chunks 0..n-1.
C28_UpsertAtomic ==
  /\ [](ChunksMatchBodies(committed))
  /\ []((up_pc = "returned" /\ up_ret = "UPSERT_APPLIED") =>
          \E it \in committed : IsUpItem(it) /\ it.body = up_body)
  /\ [][up_pc' \in {"raised", "embed_raised"} => committed' = committed]_vars

C28_Witness ==
  /\ up_pc = "raised"
  /\ tx = committed
  /\ \E it \in committed : IsUpItem(it) /\ it.body # up_body /\ Cardinality(it.chunks) = 2

RECURSIVE Concatenation(_)
Concatenation(bs) ==
  IF bs = <<>> THEN <<>> ELSE Head(bs) \o Concatenation(Tail(bs))

\* C29: the batches of chunk(norads, n) have at most n elements each and their
\* concatenation is the whole list, and a finished run_once has requested every id.
C29_BatchesCoverList ==
  /\ \A i \in 1..Len(chunk(norads, batch_size)) :
        Len(chunk(norads, batch_size)[i]) <= batch_size
  /\ tle_pc # "idle" => Concatenation(chunk(norads, batch_size)) = norads
  /\ tle_pc = "done" => requested = norads

\* xs can be obtained from ys by leaving elements out
RECURSIVE IsSubsequence(_, _)
IsSubsequence(xs, ys) ==
  IF xs = <<>> THEN TRUE
  ELSE IF ys = <<>> THEN FALSE
  ELSE IF Head(xs) = Head(ys) THEN IsSubsequence(Tail(xs), Tail(ys))
  ELSE IsSubsequence(xs, Tail(ys))

\* child is the first or the second part of parent, and neither part is empty
IsHalfOf(child, parent) ==
  \E m \in 1..(Len(parent) - 1) :
     child = SubSeq(parent, 1, m) \/ child = SubSeq(parent, m + 1, Len(parent))

\* C30: every call sends at most 3 requests for its batch; a split batch has more than
\* one id and its halves are non-empty; a result holds the records in the order of the
\* ids, left before right; the call never ends without a result or an error, three
\* throttling answers to one call are followed by a raise, and every call ends.
C30_FetchTerminates ==
  /\ [](\A i \in 1..Len(fetch_stack) :
           /\ fetch_stack[i].gets <= 3
           /\ i > 1 => /\ fetch_stack[i - 1].status = 500
                       /\ Len(fetch_stack[i - 1].ids) > 1
                       /\ fetch_stack[i].ids # <<>>
                       /\ IsHalfOf(fetch_stack[i].ids, fetch_stack[i - 1].ids))
  /\ [](fetch_outcome = "result" => IsSubsequence(fetch_result, fetch_ids))
  /\ [](fetch_outcome # "none")
  /\ [][(fetch_stack # <<>> /\ Top(fetch_stack).attempt = 3 /\ fetch_stack' # fetch_stack)
          => (fetch_outcome' = "raised" /\ fetch_error'[1] = "HTTPError")]_vars
  /\ [](fetch_outcome = "raised" <=> fetch_error # <<>>)
  /\ <>(fetch_outcome \in {"result", "raised"})

C30_Witness ==
  /\ fetch_outcome = "running"
  /\ Len(fetch_stack) = 2
  /\ Top(fetch_stack).attempt = 3
  /\ Top(fetch_stack).gets = 3
  /\ fetch_stack[1].stage = "right"

====
